---------------------------- MODULE Spec2Model ----------------------------
(***************************************************************************)
(* chainy: a hash-linked append-only log (src/src/lib.rs).                 *)
(*                                                                         *)
(* Text is a sequence of Unicode code points.  A Rust String is UTF-8, so  *)
(* str::len() is the sum of the UTF-8 widths of its code points.           *)
(*                                                                         *)
(* SHA-1 is taken to be collision free: the hex digest of a text is        *)
(* written as that text behind one mark that no payload character equals,  *)
(* so two digests are equal exactly when their inputs are equal.  The      *)
(* concatenation that is fed to SHA-1 is modelled character by character.  *)
(***************************************************************************)
EXTENDS Integers, Sequences, FiniteSets

\* ------------------------------------------------------------------ bounds
\* the longest chain the model grows (genesis included)
MaxChain == 3
\* clock readings are 0 .. MaxTime seconds since the epoch
MaxTime == 0

\* ------------------------------------------------------- program constants
\* entry's limit on data.len()
MaxDataLen == 64
\* the stand-in for "40 hex digits follow": one past the last code point
DigestMark == 1114112
\* a clock reading before UNIX_EPOCH: duration_since fails
BeforeEpoch == -1

\* ------------------------------------------------------------------- text
\* "GENESIS"
GenesisText == <<71, 69, 78, 69, 83, 73, 83>>
\* "foo"
Foo == <<102, 111, 111>>

\* n copies of the code point c
RECURSIVE Rep(_, _)
Rep(c, n) == IF n = 0 THEN <<>> ELSE <<c>> \o Rep(c, n - 1)

\* u64::to_string: decimal digits, most significant first, no padding
RECURSIVE to_string(_)
to_string(n) ==
  IF n < 10 THEN <<48 + n>> ELSE to_string(n \div 10) \o <<48 + (n % 10)>>

\* the number of bytes of one code point in UTF-8
Utf8Width(c) ==
  IF c < 128 THEN 1 ELSE IF c < 2048 THEN 2 ELSE IF c < 65536 THEN 3 ELSE 4

\* str::len(): the length in bytes
RECURSIVE StrLen(_)
StrLen(s) == IF s = <<>> THEN 0 ELSE Utf8Width(Head(s)) + StrLen(Tail(s))

\* str.chars().count(): the length in characters
CharCount(s) == Len(s)

\* format!("{:x}", Sha1::digest(input))
Sha1Hex(input) == <<DigestMark>> \o input

\* the literal "ce02dec31ca49f3c8f149b3b931a0155121d2ca0", the SHA-1 of
\* "GENESIS"
GenesisAnchor == Sha1Hex(GenesisText)

\* ------------------------------------------------------------------ Block
\* mutant: the timestamp is left out of the digest input
calculate_hash_NoTimestamp(offset, data, timestamp, previous_hash) ==
  Sha1Hex(to_string(offset) \o data \o previous_hash)

calculate_hash(offset, data, timestamp, previous_hash) ==
  Sha1Hex(to_string(offset) \o data \o to_string(timestamp) \o previous_hash)

MkBlock(offset, data, timestamp, hash, previous_hash) ==
  [offset |-> offset, data |-> data, timestamp |-> timestamp,
   hash |-> hash, previous_hash |-> previous_hash]

NoBlock == MkBlock(0, <<>>, 0, <<>>, <<>>)

\* Block::new with the clock reading clk
BlockNew(offset, data, previous_hash, clk) ==
  IF clk < 0
  THEN [res |-> "ClockError", block |-> NoBlock]
  ELSE [res |-> "Ok",
        block |-> MkBlock(offset, data, clk,
                          calculate_hash(offset, data, clk, previous_hash),
                          previous_hash)]

\* Block::validate
BlockValidate(b) ==
  IF calculate_hash(b.offset, b.data, b.timestamp, b.previous_hash) = b.hash
  THEN "Ok" ELSE "BlockNotValid"

\* ------------------------------------------------------------------ Chainy
\* Chainy::new with the clock reading clk
ChainyNew(clk) ==
  LET g == BlockNew(0, GenesisText, GenesisAnchor, clk) IN
  IF g.res = "Ok" THEN [res |-> "Ok", chain |-> <<g.block>>]
  ELSE [res |-> g.res, chain |-> <<>>]

\* Chainy::default(): the derived Default, an empty Vec
ChainyDefault == <<>>

\* the outcome of validate(): the result, and for a failure the check that
\* raised it and the index (from 0) of the block it was made on
Passed == [res |-> "Ok", check |-> "-", index |-> 0]
Failed(res, check, index) == [res |-> res, check |-> check, index |-> index]

\* mutant: the loop checks the links only, not the later block's own hash
RECURSIVE ValidateWindows_LinksOnly(_, _)
ValidateWindows_LinksOnly(c, i) ==
  IF i + 1 > Len(c) THEN Passed
  ELSE IF c[i].hash # c[i + 1].previous_hash
  THEN Failed("ChainNotValid", "link", i)
  ELSE ValidateWindows_LinksOnly(c, i + 1)

\* mutant: the loop checks the link of a window before the later block's hash
RECURSIVE ValidateWindows_LinkFirst(_, _)
ValidateWindows_LinkFirst(c, i) ==
  IF i + 1 > Len(c) THEN Passed
  ELSE IF c[i].hash # c[i + 1].previous_hash
  THEN Failed("ChainNotValid", "link", i)
  ELSE IF BlockValidate(c[i + 1]) # "Ok"
  THEN Failed(BlockValidate(c[i + 1]), "hash", i)
  ELSE ValidateWindows_LinkFirst(c, i + 1)

\* the loop over chain.windows(2), from the window that starts at position i
\* of the sequence (w[0] = c[i], w[1] = c[i + 1])
RECURSIVE ValidateWindows(_, _)
ValidateWindows(c, i) ==
  IF i + 1 > Len(c) THEN Passed
  ELSE IF BlockValidate(c[i + 1]) # "Ok"
  THEN Failed(BlockValidate(c[i + 1]), "hash", i)
  ELSE IF c[i].hash # c[i + 1].previous_hash
  THEN Failed("ChainNotValid", "link", i)
  ELSE ValidateWindows(c, i + 1)

\* mutant: the genesis block's previous_hash is not compared with the anchor
ChainChecks_NoAnchor(c) ==
  IF Len(c) = 0 THEN Failed("Panic", "index", 0)
  ELSE IF c[1].offset # 0 THEN Failed("ChainNotValid", "offset", 0)
  ELSE IF BlockValidate(c[1]) # "Ok"
  THEN Failed(BlockValidate(c[1]), "hash", 0)
  ELSE ValidateWindows(c, 1)

\* Chainy::validate, check by check; indexing chain[0] of an empty Vec panics
ChainChecks(c) ==
  IF Len(c) = 0 THEN Failed("Panic", "index", 0)
  ELSE IF c[1].offset # 0 THEN Failed("ChainNotValid", "offset", 0)
  ELSE IF c[1].previous_hash # GenesisAnchor
  THEN Failed("ChainNotValid", "anchor", 0)
  ELSE IF BlockValidate(c[1]) # "Ok"
  THEN Failed(BlockValidate(c[1]), "hash", 0)
  ELSE ValidateWindows(c, 1)

\* the value Chainy::validate returns
ChainValidate(c) == ChainChecks(c).res

\* mutant: the block is inserted at the front
add_block_Front(c, b) == <<b>> \o c

\* mutant: the block overwrites the tail
add_block_Replace(c, b) == [c EXCEPT ![Len(c)] = b]

\* Chainy::add_block
add_block(c, b) == Append(c, b)

\* mutant: previous_hash is taken from the first block, not from the tail
EntryResult_StaleTail(c, data, clk) ==
  IF StrLen(data) > MaxDataLen THEN [res |-> "DataTooLong", chain |-> c]
  ELSE IF Len(c) = 0 THEN [res |-> "NoTail", chain |-> c]
  ELSE LET b == BlockNew(Len(c) + 1, data, c[1].hash, clk) IN
       IF b.res # "Ok" THEN [res |-> b.res, chain |-> c]
       ELSE [res |-> "Ok", chain |-> add_block(c, b.block)]

\* mutant: the length test is >= instead of >
EntryResult_OffByOne(c, data, clk) ==
  IF StrLen(data) >= MaxDataLen THEN [res |-> "DataTooLong", chain |-> c]
  ELSE IF Len(c) = 0 THEN [res |-> "NoTail", chain |-> c]
  ELSE LET b == BlockNew(Len(c) + 1, data, c[Len(c)].hash, clk) IN
       IF b.res # "Ok" THEN [res |-> b.res, chain |-> c]
       ELSE [res |-> "Ok", chain |-> add_block(c, b.block)]

\* mutant: the offset is the chain length, the new block's index
EntryResult_OffsetIsIndex(c, data, clk) ==
  IF StrLen(data) > MaxDataLen THEN [res |-> "DataTooLong", chain |-> c]
  ELSE IF Len(c) = 0 THEN [res |-> "NoTail", chain |-> c]
  ELSE LET b == BlockNew(Len(c), data, c[Len(c)].hash, clk) IN
       IF b.res # "Ok" THEN [res |-> b.res, chain |-> c]
       ELSE [res |-> "Ok", chain |-> add_block(c, b.block)]

\* mutant: the tail is taken with unwrap(), which panics on an empty chain
EntryResult_Unwrap(c, data, clk) ==
  IF StrLen(data) > MaxDataLen THEN [res |-> "DataTooLong", chain |-> c]
  ELSE IF Len(c) = 0 THEN [res |-> "Panic", chain |-> c]
  ELSE LET b == BlockNew(Len(c) + 1, data, c[Len(c)].hash, clk) IN
       IF b.res # "Ok" THEN [res |-> b.res, chain |-> c]
       ELSE [res |-> "Ok", chain |-> add_block(c, b.block)]

\* Chainy::entry on the chain c with the clock reading clk
EntryResult(c, data, clk) ==
  IF StrLen(data) > MaxDataLen THEN [res |-> "DataTooLong", chain |-> c]
  ELSE IF Len(c) = 0 THEN [res |-> "NoTail", chain |-> c]
  ELSE LET b == BlockNew(Len(c) + 1, data, c[Len(c)].hash, clk) IN
       IF b.res # "Ok" THEN [res |-> b.res, chain |-> c]
       ELSE [res |-> "Ok", chain |-> add_block(c, b.block)]

\* ------------------------------------------------------------ persistence
\* JSON values of the persisted document
JNum(n) == [ty |-> "num", num |-> n, str |-> <<>>]
JStr(s) == [ty |-> "str", num |-> 0, str |-> s]
JNull == [ty |-> "null", num |-> 0, str |-> <<>>]

\* mutant: hash and previous_hash are written under each other's name
SerializeBlock_Swapped(b) ==
  [offset |-> JNum(b.offset), data |-> JStr(b.data),
   timestamp |-> JNum(b.timestamp), hash |-> JStr(b.previous_hash),
   previous_hash |-> JStr(b.hash)]

\* derive(Serialize) for Block: the five fields, u64 as a JSON number and
\* String as a JSON string
SerializeBlock(b) ==
  [offset |-> JNum(b.offset), data |-> JStr(b.data),
   timestamp |-> JNum(b.timestamp), hash |-> JStr(b.hash),
   previous_hash |-> JStr(b.previous_hash)]

\* impl Display for Chainy: serde_json::to_string, {"chain": [ ... ]}
Display(c) ==
  [shape |-> "object", blocks |-> [i \in 1 .. Len(c) |-> SerializeBlock(c[i])]]

\* what a write that failed part-way leaves: a proper prefix of a document
Truncated == [shape |-> "garbage", blocks |-> <<>>]

NoFile == [present |-> FALSE, doc |-> Truncated]
FileOf(doc) == [present |-> TRUE, doc |-> doc]

\* derive(Deserialize) for Block accepts the object
BlockDecodes(o) ==
  /\ o.offset.ty = "num" /\ o.offset.num >= 0
  /\ o.data.ty = "str"
  /\ o.timestamp.ty = "num" /\ o.timestamp.num >= 0
  /\ o.hash.ty = "str"
  /\ o.previous_hash.ty = "str"

\* serde_json::from_str::<Chainy> accepts the document
Decodes(doc) ==
  /\ doc.shape = "object"
  /\ \A i \in 1 .. Len(doc.blocks) : BlockDecodes(doc.blocks[i])

DeserializeBlock(o) ==
  MkBlock(o.offset.num, o.data.str, o.timestamp.num, o.hash.str,
          o.previous_hash.str)

\* the Chainy that serde_json::from_str builds from a document it accepts
Deserialize(doc) ==
  [i \in 1 .. Len(doc.blocks) |-> DeserializeBlock(doc.blocks[i])]

\* Chainy::store: fs::write creates or truncates the file, then writes the
\* whole text.  outcome: "ok", "refused" (the file could not be opened:
\* nothing changes) or "partial" (the write failed after truncation)
StoreResult(c, f, outcome) ==
  IF outcome = "ok" THEN [res |-> "Ok", file |-> FileOf(Display(c))]
  ELSE IF outcome = "refused" THEN [res |-> "IOError", file |-> f]
  ELSE [res |-> "IOError", file |-> FileOf(Truncated)]

\* a call that did not run validate()
NotRun == [res |-> "-", check |-> "-", index |-> 0]

\* mutant: the error of validate() is passed on as it is
LoadResult_Propagate(f, readable) ==
  IF ~f.present \/ ~readable
  THEN [res |-> "IOError", inner |-> NotRun, chain |-> <<>>]
  ELSE IF ~Decodes(f.doc)
  THEN [res |-> "DecodeError", inner |-> NotRun, chain |-> <<>>]
  ELSE LET d == Deserialize(f.doc)
           v == ChainChecks(d) IN
       IF v.res = "Ok" THEN [res |-> "Ok", inner |-> v, chain |-> d]
       ELSE [res |-> v.res, inner |-> v, chain |-> <<>>]

\* Chainy::load; readable: fs::read succeeds on an existing file
LoadResult(f, readable) ==
  IF ~f.present \/ ~readable
  THEN [res |-> "IOError", inner |-> NotRun, chain |-> <<>>]
  ELSE IF ~Decodes(f.doc)
  THEN [res |-> "DecodeError", inner |-> NotRun, chain |-> <<>>]
  ELSE LET d == Deserialize(f.doc)
           v == ChainChecks(d) IN
       IF v.res = "Panic" THEN [res |-> "Panic", inner |-> v, chain |-> <<>>]
       ELSE IF v.res = "Ok" THEN [res |-> "Ok", inner |-> v, chain |-> d]
       ELSE [res |-> "ChainNotValid", inner |-> v, chain |-> <<>>]

\* ------------------------------------------------------------------ state
VARIABLES
  origin,   \* how the chain was constructed: "new" or "default"
  chain,    \* Chainy.chain, the in-memory Vec<Block>
  file,     \* the content of the file at the path
  ret,      \* the last call: its name, its result, and the outcome of the
            \* validate() it ran
  loaded,   \* the Chainy the last load returned, if any
  stored    \* the chain as of the last successful store, if any

vars == <<origin, chain, file, ret, loaded, stored>>

\* clock readings: seconds since the epoch, or a clock set before it
Times == 0 .. MaxTime
ClockReadings == Times \cup {BeforeEpoch}

\* the payloads the caller passes to entry
Payloads ==
  { Foo,
    Rep(97, MaxDataLen),        \* 64 x 'a': 64 bytes
    Rep(97, MaxDataLen + 1),    \* 65 x 'a': 65 bytes
    Rep(233, MaxDataLen) }      \* 64 x U+00E9: 64 characters, 128 bytes

None == [some |-> FALSE, chain |-> <<>>]
Some(c) == [some |-> TRUE, chain |-> c]
Ret(op, res, inner) == [op |-> op, res |-> res, inner |-> inner]

\* a panic aborts the process: nothing runs after it
Running == ret.res # "Panic"

\* the state after construction, by Chainy::new() or by Chainy::default()
Init ==
  /\ \/ \E clk \in ClockReadings :
          /\ ChainyNew(clk).res = "Ok"
          /\ chain = ChainyNew(clk).chain
          /\ origin = "new"
     \/ /\ chain = ChainyDefault
        /\ origin = "default"
  /\ file = NoFile
  /\ ret = Ret("construct", "Ok", NotRun)
  /\ loaded = None
  /\ stored = None

\* c.entry(data)
Entry(data, clk) ==
  /\ Running
  /\ Len(chain) < MaxChain
  /\ LET r == EntryResult(chain, data, clk) IN
       /\ chain' = r.chain
       /\ ret' = Ret("entry", r.res, NotRun)
  /\ UNCHANGED <<origin, file, loaded, stored>>

\* c.validate()
Validate ==
  /\ Running
  /\ ret' = Ret("validate", ChainValidate(chain), ChainChecks(chain))
  /\ UNCHANGED <<origin, chain, file, loaded, stored>>

\* mutant: store moves the blocks out of the chain it writes
Store_Drain(outcome) ==
  /\ Running
  /\ LET r == StoreResult(chain, file, outcome) IN
       /\ file' = r.file
       /\ ret' = Ret("store", r.res, NotRun)
       /\ stored' = IF r.res = "Ok" THEN Some(chain) ELSE stored
  /\ chain' = <<>>
  /\ UNCHANGED <<origin, loaded>>

\* c.store(path)
Store(outcome) ==
  /\ Running
  /\ LET r == StoreResult(chain, file, outcome) IN
       /\ file' = r.file
       /\ ret' = Ret("store", r.res, NotRun)
       /\ stored' = IF r.res = "Ok" THEN Some(chain) ELSE stored
  /\ UNCHANGED <<origin, chain, loaded>>

\* Chainy::load(path)
Load(readable) ==
  /\ Running
  /\ LET r == LoadResult(file, readable) IN
       /\ ret' = Ret("load", r.res, r.inner)
       /\ loaded' = IF r.res = "Ok" THEN Some(r.chain) ELSE None
  /\ UNCHANGED <<origin, chain, file, stored>>

Next ==
  \/ \E data \in Payloads, clk \in ClockReadings : Entry(data, clk)
  \/ Validate
  \/ \E outcome \in {"ok", "refused", "partial"} : Store(outcome)
  \/ \E readable \in BOOLEAN : Load(readable)

Spec == Init /\ [][Next]_vars

\* ------------------------------------------------- the file edited by hand
\* the file is exactly what the last successful store wrote
Untouched == stored.some /\ file = FileOf(Display(stored.chain))

\* the values an editor writes into a field
EditOffsets == 0 .. 1
EditTimes == 0 .. MaxTime + 1
EditTexts == Payloads \cup {<<>>}
EditHashes(doc) ==
  {Sha1Hex(<<>>)} \cup {doc.blocks[i].hash.str : i \in 1 .. Len(doc.blocks)}

EditValues(doc, field) ==
  IF field = "offset" THEN {JNum(n) : n \in EditOffsets}
  ELSE IF field = "timestamp" THEN {JNum(n) : n \in EditTimes}
  ELSE IF field = "data" THEN {JStr(t) : t \in EditTexts}
  ELSE {JStr(h) : h \in EditHashes(doc)}

Fields == {"offset", "data", "timestamp", "hash", "previous_hash"}

\* the block object o with its "hash" recomputed from its other fields
Resealed(o) ==
  [o EXCEPT !.hash = JStr(calculate_hash(o.offset.num, o.data.str,
                                         o.timestamp.num,
                                         o.previous_hash.str))]

\* the document with one field of block i overwritten, and the block's hash
\* brought up to date when reseal
EditedDoc(doc, i, field, v, reseal) ==
  LET o == [doc.blocks[i] EXCEPT ![field] = v] IN
  [doc EXCEPT !.blocks[i] = IF reseal THEN Resealed(o) ELSE o]

\* the editor takes its turn on a file that holds the chain as it is now
EditorTurn == Running /\ Untouched /\ stored.chain = chain

\* somebody overwrites one field of one block of the stored file
EditField(i, field, v, reseal) ==
  /\ EditorTurn
  /\ i \in 1 .. Len(file.doc.blocks)
  /\ v \in EditValues(file.doc, field)
  /\ v # file.doc.blocks[i][field]
  /\ field = "hash" => ~reseal
  /\ file' = FileOf(EditedDoc(file.doc, i, field, v, reseal))
  /\ ret' = Ret("edit", "Ok", NotRun)
  /\ UNCHANGED <<origin, chain, loaded, stored>>

\* somebody replaces one field of one block by null
EditNull(i, field) ==
  /\ EditorTurn
  /\ i \in 1 .. Len(file.doc.blocks)
  /\ file' = FileOf(EditedDoc(file.doc, i, field, JNull, FALSE))
  /\ ret' = Ret("edit", "Ok", NotRun)
  /\ UNCHANGED <<origin, chain, loaded, stored>>

\* somebody empties the array: {"chain": []}
EditEmpty ==
  /\ EditorTurn
  /\ file.doc.blocks # <<>>
  /\ file' = FileOf([file.doc EXCEPT !.blocks = <<>>])
  /\ ret' = Ret("edit", "Ok", NotRun)
  /\ UNCHANGED <<origin, chain, loaded, stored>>

\* the file is as the program left it: absent, cut short by a failed write,
\* or what the last successful store wrote
Unedited == ~file.present \/ file.doc = Truncated \/ Untouched

\* the calls that do not read the file, made while the file is unedited
EntryUnedited(data, clk) == Unedited /\ Entry(data, clk)
ValidateUnedited == Unedited /\ Validate
StoreUnedited(outcome) == Unedited /\ Store(outcome)

\* the blocks the editor can reach
EditBlocks == IF EditorTurn THEN 1 .. Len(file.doc.blocks) ELSE {}

\* the scenario of a file edited by hand: the chain is built and stored, the
\* file is edited, the file is loaded
NextEdit ==
  \/ \E data \in Payloads, clk \in ClockReadings : EntryUnedited(data, clk)
  \/ ValidateUnedited
  \/ \E outcome \in {"ok", "refused", "partial"} : StoreUnedited(outcome)
  \/ \E readable \in BOOLEAN : Load(readable)
  \/ \E i \in EditBlocks, field \in Fields, reseal \in BOOLEAN :
       \E v \in EditValues(file.doc, field) : EditField(i, field, v, reseal)
  \/ \E i \in EditBlocks, field \in Fields : EditNull(i, field)
  \/ EditEmpty

\* the program together with an editor of its file
SpecEdit == Init /\ [][NextEdit]_vars

\* ------------------------------------------- digits moved between fields
\* payloads with a digit at an end: "a1" and "7x"
ShiftPayloads == {<<97, 49>>, <<55, 120>>}

IsDigit(ch) == ch >= 48 /\ ch <= 57

\* the number a JSON number token of decimal digits stands for
RECURSIVE ParseDecimal(_)
ParseDecimal(s) ==
  IF s = <<>> THEN 0
  ELSE 10 * ParseDecimal(SubSeq(s, 1, Len(s) - 1)) + (s[Len(s)] - 48)

\* the block object o with the last character of its data, a digit, taken
\* away and written in front of the digits of its timestamp
DigitToTimestamp(o) ==
  LET t == o.data.str IN
  [o EXCEPT !.data = JStr(SubSeq(t, 1, Len(t) - 1)),
            !.timestamp =
              JNum(ParseDecimal(<<t[Len(t)]>> \o to_string(o.timestamp.num)))]

\* the block object o with the first character of its data, a digit, taken
\* away and written behind the digits of its offset
DigitToOffset(o) ==
  LET t == o.data.str IN
  [o EXCEPT !.data = JStr(Tail(t)),
            !.offset =
              JNum(ParseDecimal(to_string(o.offset.num) \o <<Head(t)>>))]

\* somebody moves a digit of block i of the stored file from data into
\* timestamp
MoveDigitToTimestamp(i) ==
  /\ EditorTurn
  /\ i \in 1 .. Len(file.doc.blocks)
  /\ LET t == file.doc.blocks[i].data.str IN
       t # <<>> /\ IsDigit(t[Len(t)])
  /\ file' = FileOf([file.doc EXCEPT
                       !.blocks[i] = DigitToTimestamp(file.doc.blocks[i])])
  /\ ret' = Ret("edit", "Ok", NotRun)
  /\ UNCHANGED <<origin, chain, loaded, stored>>

\* somebody moves a digit of block i of the stored file from data into offset
MoveDigitToOffset(i) ==
  /\ EditorTurn
  /\ i \in 1 .. Len(file.doc.blocks)
  /\ LET t == file.doc.blocks[i].data.str IN
       t # <<>> /\ IsDigit(Head(t))
  /\ file' = FileOf([file.doc EXCEPT
                       !.blocks[i] = DigitToOffset(file.doc.blocks[i])])
  /\ ret' = Ret("edit", "Ok", NotRun)
  /\ UNCHANGED <<origin, chain, loaded, stored>>

\* the scenario of a digit moved by hand: chains with digits in their
\* payloads are built and stored, the file is edited, the file is loaded
NextShift ==
  \/ \E data \in ShiftPayloads, clk \in ClockReadings :
       EntryUnedited(data, clk)
  \/ ValidateUnedited
  \/ \E outcome \in {"ok", "refused", "partial"} : StoreUnedited(outcome)
  \/ \E readable \in BOOLEAN : Load(readable)
  \/ \E i \in EditBlocks : MoveDigitToTimestamp(i)
  \/ \E i \in EditBlocks : MoveDigitToOffset(i)

SpecShift == Init /\ [][NextShift]_vars

\* ----------------------------------------------------------------- claims
\* every block's stored hash is the digest of its own fields
Sealed(c) == \A i \in 1 .. Len(c) : BlockValidate(c[i]) = "Ok"

\* every block's previous_hash is its predecessor's hash
Linked(c) == \A i \in 2 .. Len(c) : c[i].previous_hash = c[i - 1].hash

\* C1: a chain made by new() and grown by entry calls, whatever their
\* outcome, passes validate() in every state: each block's hash is the
\* digest of its fields and each previous_hash is the predecessor's hash.
C1_AppendThenValidate ==
  origin = "new" =>
    /\ ChainValidate(chain) = "Ok"
    /\ Sealed(chain)
    /\ Linked(chain)

\* three blocks, and validate() has just returned Ok
C1_Witness ==
  /\ origin = "new" /\ Len(chain) >= 3
  /\ ret.op = "validate" /\ ret.res = "Ok"

\* the file could be read and decodes into a chain
Decoded == file.present /\ Decodes(file.doc)

\* C2: load returns a chain only when validate() passes on the decoded
\* chain, and then it is that chain; when validate() on the decoded chain
\* fails, with ChainNotValid or with BlockNotValid, load returns
\* ChainNotValid and no chain.
C2_RejectOnLoad ==
  ret.op = "load" =>
    /\ loaded.some =>
         /\ ret.res = "Ok" /\ Decoded
         /\ loaded.chain = Deserialize(file.doc)
         /\ ChainValidate(loaded.chain) = "Ok"
    /\ ret.res # "Ok" => ~loaded.some
    /\ ( /\ ret.res # "IOError" /\ Decoded
         /\ ChainValidate(Deserialize(file.doc))
              \in {"ChainNotValid", "BlockNotValid"} )
       => ret.res = "ChainNotValid" /\ ~loaded.some

\* load has rejected a file whose chain failed with BlockNotValid
C2_Witness ==
  /\ ret.op = "load" /\ ret.res = "ChainNotValid"
  /\ ret.inner.res = "BlockNotValid"
  /\ ~loaded.some

\* C3: when the file holds what the last successful store of a chain made by
\* new() wrote, a load that can read it succeeds; and the chain a successful
\* load returns is, block for block and field for field, the chain as it was
\* at the last successful store, without the entries appended since.
C3_RoundTrip ==
  (origin = "new" /\ ret.op = "load") =>
    /\ (Untouched /\ ret.res # "IOError") =>
         ret.res = "Ok" /\ loaded = Some(stored.chain)
    /\ ret.res = "Ok" => stored.some /\ loaded = Some(stored.chain)

\* a load returned the two blocks stored before a third was appended
C3_Witness ==
  /\ origin = "new" /\ ret.op = "load" /\ ret.res = "Ok"
  /\ Len(loaded.chain) = 2 /\ Len(chain) = 3
  /\ loaded.chain = SubSeq(chain, 1, 2)

\* load has read a file that decodes, written by a store of a chain made by
\* new() and possibly edited since
LoadedStoredFile ==
  /\ origin = "new" /\ stored.some
  /\ ret.op = "load" /\ ret.res # "IOError"
  /\ Decoded

\* the chain d is the chain s with nothing but one field of block i changed
OnlyFieldChanged(s, d, i, field) ==
  /\ Len(d) = Len(s) /\ i \in 1 .. Len(s)
  /\ d[i][field] # s[i][field]
  /\ d = [s EXCEPT ![i] = [s[i] EXCEPT ![field] = d[i][field]]]

\* C4: when nothing but the data, or nothing but the timestamp, of one block
\* of a valid chain is changed (the genesis block and the tail included, the
\* hash not recomputed), validate() fails with BlockNotValid.
C4_TamperDataOrTimestamp ==
  LoadedStoredFile =>
    \A i \in 1 .. Len(stored.chain) : \A field \in {"data", "timestamp"} :
      OnlyFieldChanged(stored.chain, Deserialize(file.doc), i, field)
        => /\ ret.inner.res = "BlockNotValid"
           /\ ret.inner.check = "hash" /\ ret.inner.index = i - 1

\* validate() has run on a three-block chain whose genesis timestamp was
\* changed
C4_Witness ==
  /\ LoadedStoredFile /\ Len(stored.chain) = 3
  /\ OnlyFieldChanged(stored.chain, Deserialize(file.doc), 1, "timestamp")
  /\ ret.inner.res = "BlockNotValid"

\* block i of the stored chain has a successor and nothing but its hash was
\* changed
HashOfLinkedBlockChanged(i) ==
  /\ i < Len(stored.chain)
  /\ OnlyFieldChanged(stored.chain, Deserialize(file.doc), i, "hash")

\* C5 as stated: when nothing but the stored hash of a block that has a
\* successor is changed, validate() fails with ChainNotValid, raised by the
\* linkage check between the two blocks.
C5_AsStated ==
  LoadedStoredFile =>
    \A i \in 1 .. Len(stored.chain) :
      HashOfLinkedBlockChanged(i)
        => /\ ret.inner.res = "ChainNotValid"
           /\ ret.inner.check = "link"

\* C5, amended: when nothing but the stored hash of a block that has a
\* successor is changed, validate() fails with BlockNotValid, raised by the
\* changed block's own hash check, which runs before the linkage check
\* between it and its successor.
C5_TamperHash ==
  LoadedStoredFile =>
    \A i \in 1 .. Len(stored.chain) :
      HashOfLinkedBlockChanged(i)
        => /\ ret.inner.res = "BlockNotValid"
           /\ ret.inner.check = "hash" /\ ret.inner.index = i - 1

\* validate() has run on a three-block chain whose middle block's hash was
\* changed
C5_Witness ==
  /\ LoadedStoredFile /\ Len(stored.chain) = 3
  /\ HashOfLinkedBlockChanged(2)
  /\ ret.inner.res # "Ok"

\* C6: with length as str::len() measures it, entry with a payload of
\* length 64 succeeds when the clock can be read and the chain has a tail,
\* and entry with a payload of length 65 or more fails with DataTooLong; a
\* call that fails with DataTooLong leaves the chain, and everything else the
\* next call reads, exactly as it was.
C6_LengthBoundary ==
  [][\A data \in Payloads, clk \in ClockReadings :
       Entry(data, clk) =>
         /\ (StrLen(data) = MaxDataLen /\ clk >= 0 /\ chain # <<>>)
              => ret'.res = "Ok" /\ Len(chain') = Len(chain) + 1
         /\ StrLen(data) >= MaxDataLen + 1 => ret'.res = "DataTooLong"
         /\ ret'.res = "DataTooLong"
              => /\ chain' = chain
                 /\ UNCHANGED <<origin, file, loaded, stored>>
    ]_vars

\* a call failed with DataTooLong on a chain that holds a payload of length 64
C6_Witness ==
  /\ ret.op = "entry" /\ ret.res = "DataTooLong"
  /\ \E i \in 1 .. Len(chain) : StrLen(chain[i].data) = MaxDataLen

\* C7 as stated: entry fails with DataTooLong exactly when the payload has
\* more than 64 characters, whatever the number of bytes of its encoding.
C7_AsStated ==
  [][\A data \in Payloads, clk \in ClockReadings :
       Entry(data, clk) =>
         (ret'.res = "DataTooLong" <=> CharCount(data) > MaxDataLen)
    ]_vars

\* the genesis block new() builds: offset 0, "GENESIS", the anchor constant
IsGenesis(b) ==
  /\ b.offset = 0
  /\ b.data = GenesisText
  /\ b.previous_hash = GenesisAnchor

\* C8: new() yields one block, the genesis block, and validate() passes on
\* it; in every state reached by entry, validate and store calls the block at
\* index 0 is that same block, field for field.
C8_GenesisInvariant ==
  /\ origin = "new" =>
       /\ Len(chain) = 1
       /\ ChainValidate(chain) = "Ok"
  /\ [](origin = "new" => Len(chain) >= 1 /\ IsGenesis(chain[1]))
  /\ [][origin = "new" => chain'[1] = chain[1]]_vars

\* three blocks, a store behind and validate() just run
C8_Witness ==
  /\ origin = "new" /\ Len(chain) = 3 /\ IsGenesis(chain[1])
  /\ stored.some /\ ret.op = "validate"

\* C9 as stated: the block at index i has offset i.
C9_AsStated ==
  origin = "new" => \A i \in 1 .. Len(chain) : chain[i].offset = i - 1

\* the chain c is an initial part of the chain d
IsPrefix(c, d) == Len(c) <= Len(d) /\ SubSeq(d, 1, Len(c)) = c

\* C10: an entry call that fails, for whatever reason, leaves the chain as it
\* was; one that succeeds puts exactly one block behind the blocks that were
\* there, with the argument as data and the hash of the former tail as
\* previous_hash; no call changes a block that is there, so the chain of an
\* earlier state is a prefix of the chain of a later one.
C10_AppendOnly ==
  [][/\ \A data \in Payloads, clk \in ClockReadings :
          Entry(data, clk) =>
            \/ ret'.res # "Ok" /\ chain' = chain
            \/ /\ ret'.res = "Ok"
               /\ Len(chain') = Len(chain) + 1
               /\ IsPrefix(chain, chain')
               /\ chain'[Len(chain')].data = data
               /\ chain'[Len(chain')].previous_hash = chain[Len(chain)].hash
     /\ IsPrefix(chain, chain')
    ]_vars

\* a third block has just been appended
C10_Witness ==
  /\ ret.op = "entry" /\ ret.res = "Ok"
  /\ Len(chain) = 3

\* C11 as stated: load never ends abruptly on the content of a file that
\* could be read and decodes: it returns a chain or one error value, and for
\* an empty array, {"chain": []}, that error is ChainNotValid.
C11_AsStated ==
  (ret.op = "load" /\ ret.res # "IOError" /\ Decoded) =>
    /\ ret.res \in {"Ok", "ChainNotValid"}
    /\ file.doc.blocks = <<>> => ret.res = "ChainNotValid"

\* C12 as stated: every block of a chain that load returns, like every block
\* of a chain built by new() and entry, has a payload of at most 64
\* characters.
C12_AsStated ==
  /\ origin = "new" =>
       \A i \in 1 .. Len(chain) : CharCount(chain[i].data) <= MaxDataLen
  /\ loaded.some =>
       \A i \in 1 .. Len(loaded.chain) :
         CharCount(loaded.chain[i].data) <= MaxDataLen

\* validate() has run in the last call
ValidateRan ==
  \/ ret.op = "validate"
  \/ ret.op = "load" /\ ret.res # "IOError" /\ Decoded

\* the chain it has run on
Validated == IF ret.op = "validate" THEN chain ELSE Deserialize(file.doc)

\* the four conditions of C13 on a chain with at least one block
WellFormed(c) ==
  /\ c[1].offset = 0
  /\ c[1].previous_hash = GenesisAnchor
  /\ Sealed(c)
  /\ Linked(c)

\* C13: on a chain that is not empty validate() returns Ok exactly when
\* block 0 has offset 0 and the anchor as previous_hash, every block's hash
\* is the digest of its own fields and every previous_hash is the
\* predecessor's hash; the offsets of later blocks, the payloads and the
\* timestamps have no part in it.
C13_ValidateIff ==
  (ValidateRan /\ Validated # <<>>) =>
    (ret.inner.res = "Ok" <=> WellFormed(Validated))

\* validate() has passed a chain whose genesis payload is not "GENESIS" and
\* is longer than 64 characters
C13_Witness ==
  /\ ret.op = "load" /\ ret.inner.res = "Ok"
  /\ loaded.chain[1].data # GenesisText
  /\ CharCount(loaded.chain[1].data) > MaxDataLen

\* the checks of C14 in their order, numbered from 0: the genesis offset,
\* the genesis previous_hash, the genesis hash, then for each index i >= 1
\* the hash of block i (number 2i + 1) and the link between block i - 1 and
\* block i (number 2i + 2)
CheckNumbers(c) == 0 .. 2 * Len(c)
CheckBlock(k) == IF k <= 2 THEN 0 ELSE (k - 1) \div 2
CheckKind(k) ==
  IF k = 0 THEN "offset" ELSE IF k = 1 THEN "anchor"
  ELSE IF k = 2 \/ k % 2 = 1 THEN "hash" ELSE "link"

\* check number k is violated on the chain c
Violated(c, k) ==
  LET i == CheckBlock(k) + 1 IN
  IF k = 0 THEN c[1].offset # 0
  ELSE IF k = 1 THEN c[1].previous_hash # GenesisAnchor
  ELSE IF CheckKind(k) = "hash" THEN BlockValidate(c[i]) # "Ok"
  ELSE c[i - 1].hash # c[i].previous_hash

Violations(c) == {k \in CheckNumbers(c) : Violated(c, k)}

\* the earliest of a set of check numbers that is not empty
Earliest(ks) == CHOOSE k \in ks : \A j \in ks : k <= j

\* the error a violated check raises
ErrorOf(k) ==
  IF CheckKind(k) = "hash" THEN "BlockNotValid" ELSE "ChainNotValid"

\* C14: validate() on a chain that is not empty returns Ok when no check is
\* violated, and otherwise the error of the earliest violated check in the
\* order above, raised by that check, whatever later checks are violated
\* too.
C14_FailFast ==
  (ValidateRan /\ Validated # <<>>) =>
    LET ks == Violations(Validated) IN
    IF ks = {} THEN ret.inner = Passed
    ELSE ret.inner = Failed(ErrorOf(Earliest(ks)), CheckKind(Earliest(ks)),
                            CheckBlock(Earliest(ks)))

\* validate() has run on a chain with two violations, a hash and the link
\* that the same block takes part in, and has returned the hash's error
C14_Witness ==
  /\ ValidateRan /\ Len(Validated) = 3
  /\ Violations(Validated) = {5, 6}
  /\ ret.inner = Failed("BlockNotValid", "hash", 2)

\* C15: the offset of an appended block is the chain length before the call
\* plus one: the chain has the offsets 0, 2, 3, ..., strictly increasing and
\* without the value 1, whatever calls failed in between; and each
\* successful entry gives its block the length before the call plus one.
C15_OffsetIsLengthPlusOne ==
  /\ [](origin = "new" =>
          /\ chain[1].offset = 0
          /\ \A i \in 2 .. Len(chain) : chain[i].offset = i
          /\ \A i \in 1 .. Len(chain) : chain[i].offset # 1
          /\ \A i \in 2 .. Len(chain) :
               chain[i - 1].offset < chain[i].offset)
  /\ [][(ret'.op = "entry" /\ ret'.res = "Ok") =>
          chain'[Len(chain')].offset = Len(chain) + 1]_vars
  /\ [][(ret'.op = "entry" /\ ret'.res # "Ok") => chain' = chain]_vars

\* a chain of three blocks with the offsets 0, 2, 3
C15_Witness ==
  /\ origin = "new" /\ Len(chain) = 3
  /\ chain[1].offset = 0 /\ chain[2].offset = 2 /\ chain[3].offset = 3

\* C16: validate() and store(path), whether they succeed or fail, leave the
\* in-memory chain as it was, block for block; validate() leaves the file as
\* it was, and so does a load that fails.
C16_ReadOnly ==
  [][/\ ret'.op = "validate" => chain' = chain /\ file' = file
     /\ ret'.op = "store" => chain' = chain
     /\ (ret'.op = "load" /\ ret'.res # "Ok") => file' = file
    ]_vars

\* a store has failed on a chain of three blocks, which are still there
C16_Witness ==
  /\ ret.op = "store" /\ ret.res = "IOError"
  /\ origin = "new" /\ Len(chain) = 3

\* C17: entry on an empty chain with a payload of at most 64 characters
\* returns an error value, without a panic, and the chain stays empty; and a
\* chain made by new() is never empty, whatever entry calls follow.
C17_EmptyChain ==
  /\ [](origin = "new" => chain # <<>>)
  /\ [][\A data \in Payloads, clk \in ClockReadings :
          (Entry(data, clk) /\ chain = <<>> /\ CharCount(data) <= MaxDataLen)
            => /\ ret'.res \notin {"Ok", "Panic"}
               /\ chain' = <<>>
       ]_vars

\* entry has returned its error for a chain without a tail
C17_Witness ==
  /\ origin = "default" /\ chain = <<>>
  /\ ret.op = "entry" /\ ret.res = "NoTail"

\* the four fields the digest is computed from
Digested(b) == <<b.offset, b.data, b.timestamp, b.previous_hash>>
DigestOf(b) == calculate_hash(b.offset, b.data, b.timestamp, b.previous_hash)

\* C18 as stated: two blocks that differ in any of offset, data, timestamp
\* and previous_hash have different digests, so a block of a valid chain
\* whose fields were changed in any combination, with its hash kept, makes
\* validate() fail.
C18_AsStated ==
  (LoadedStoredFile /\ Len(Deserialize(file.doc)) = Len(stored.chain)) =>
    \A i \in 1 .. Len(stored.chain) :
      LET s == stored.chain[i]
          d == Deserialize(file.doc)[i] IN
      (Digested(d) # Digested(s) /\ d.hash = s.hash)
        => /\ DigestOf(d) # DigestOf(s)
           /\ ret.inner.res # "Ok"

=============================================================================
